---- MODULE Spec2Model ----
(***************************************************************************)
(* Model of wavelets.py: the Wavelets namespace of kernel functions and    *)
(* the WaveletAnalysis object with its scales() method.                    *)
(*                                                                         *)
(* Numbers.  dt is a Python int.  dj is a rational num/den whose float     *)
(* arithmetic is exact (num, den powers of two, 0.125 being the default).  *)
(* The value 2^j of line 110 stays below 2^62 within the bounds used here, *)
(* so numpy's 64 bit integers do not wrap and are modelled by integers.    *)
(***************************************************************************)
EXTENDS Integers, Sequences, FiniteSets, TLC

VARIABLES
    self,     \* the WaveletAnalysis instance: its attribute dictionary
    calls,    \* number of scales() calls made on self
    ret,      \* the latest scales() call: what it read and its outcome
    inN,      \* ladder computation: the value self.N evaluates to
    inDt,     \* ladder computation: self.dt
    inDj,     \* ladder computation: self.dj
    out,      \* ladder computation: outcome of lines 101-111
    held,     \* per caller slot, the latest lookup in the Wavelets namespace
    outp      \* per caller slot, the output of calling the kernel held

vars == <<self, calls, ret, inN, inDt, inDj, out, held, outp>>

---------------------------------------------------------------------------
(* Bounds *)

MaxLen == 3       \* longest signal x given to WaveletAnalysis
MaxCalls == 2     \* scales() calls followed on one object
MaxN == 8         \* largest value of N in the ladder computation
MaxPoints == 2    \* largest kernel length / width passed to a kernel

Samples == {0, 1}

Signals == UNION {[1..n -> Samples] : n \in 0..MaxLen}

DtValues == {-1, 0, 1, 2}

Rat(n, d) == [num |-> n, den |-> d]

\* -1, -1/2, 0, 1/8 (the default), 1/2, 1, 2
DjValues == {Rat(-1, 1), Rat(-1, 2), Rat(0, 1), Rat(1, 8), Rat(1, 2),
             Rat(1, 1), Rat(2, 1)}

---------------------------------------------------------------------------
(* Outcomes of a Python call *)

Return(v) == [kind |-> "return", value |-> v, exc |-> "none"]

Raise(e) == [kind |-> "raise", value |-> <<>>, exc |-> e]

NoOutcome == [kind |-> "none", value |-> <<>>, exc |-> "none"]

---------------------------------------------------------------------------
(* Arithmetic helpers *)

Abs(a) == IF a < 0 THEN -a ELSE a

Sign(a) == IF a < 0 THEN -1 ELSE IF a = 0 THEN 0 ELSE 1

RECURSIVE Pow(_, _)
Pow(b, e) == IF e <= 0 THEN 1 ELSE b * Pow(b, e - 1)

RECURSIVE Gcd(_, _)
Gcd(a, b) == IF b = 0 THEN a ELSE Gcd(b, a % b)

\* floor of (d/n) * log2(p/q) for integers p >= q >= 1, n >= 1, d >= 1:
\* the largest F with 2^(F*n) * q^d <= p^d, searched upwards from F.
RECURSIVE FloorLogFrom(_, _, _, _, _)
FloorLogFrom(p, q, n, d, F) ==
    IF Pow(2, (F + 1) * n) * Pow(q, d) <= Pow(p, d)
    THEN FloorLogFrom(p, q, n, d, F + 1)
    ELSE F

\* whether (d/n) * log2(p/q) is the integer F
IsExactLog(p, q, n, d, F) == Pow(2, F * n) * Pow(q, d) = Pow(p, d)

\* The real number v = (1/dj) * log2(a/b), a/b > 0, kept as a sign, the
\* floor of its magnitude and whether the magnitude is an integer.
RealOf(a, b, dj) ==
    LET g  == Gcd(Abs(a), Abs(b))
        aa == Abs(a) \div g
        bb == Abs(b) \div g
        p  == IF aa >= bb THEN aa ELSE bb
        q  == IF aa >= bb THEN bb ELSE aa
        n  == Abs(dj.num)
        F  == FloorLogFrom(p, q, n, dj.den, 0)
        sl == IF aa > bb THEN 1 ELSE IF aa = bb THEN 0 ELSE -1
    IN  [sign  |-> Sign(dj.num) * sl,
         mag   |-> F,
         whole |-> IsExactLog(p, q, n, dj.den, F)]


---------------------------------------------------------------------------
(* class Wavelets: a namespace of kernel functions *)

\* The functions the class body names.  They live in scipy, outside this
\* repository; a kernel function is known here by its identity only.
KernelFunctions == {"scipy.signal.morlet", "scipy.signal.ricker"}

\* an assignment in a class body
Bind(ns, name, val) ==
    [n \in (DOMAIN ns) \cup {name} |-> IF n = name THEN val ELSE ns[n]]

\* The class body as written, but with dog2 bound to a function of its own.
Wavelets_dog2_separate ==
    LET doc == [n \in {"__doc__"} |-> "docstring"]
        m   == Bind(doc, "morlet", "scipy.signal.morlet")
        r   == Bind(m, "ricker", "scipy.signal.ricker")
    IN  Bind(r, "dog2", "dog2")

\* The namespace the class body builds: the docstring, then morlet, ricker
\* and dog2, the last bound to the value ricker has at that point.
Wavelets ==
    LET doc == [n \in {"__doc__"} |-> "docstring"]
        m   == Bind(doc, "morlet", "scipy.signal.morlet")
        r   == Bind(m, "ricker", "scipy.signal.ricker")
    IN  Bind(r, "dog2", r["ricker"])

\* every value the class body binds is a function; the docstring is not
Callable(v) == v # "docstring"

Found(v) == [kind |-> "return", value |-> v, exc |-> "none"]

NotFound(e) == [kind |-> "raise", value |-> "none", exc |-> e]

\* A lookup that falls back to morlet for a name the class does not define.
getattr_default(ns, name) ==
    IF name \in DOMAIN ns THEN Found(ns[name]) ELSE Found(ns["morlet"])

\* Wavelets.<name>: attribute access on the class
getattr(ns, name) ==
    IF name \in DOMAIN ns THEN Found(ns[name]) ELSE NotFound("AttributeError")

\* kernel(points, a): the call, fixed by the function called and its arguments
KernelCall(fn, points, a) ==
    [made |-> TRUE, fn |-> fn, points |-> points, a |-> a]

NoCall == [made |-> FALSE, fn |-> "none", points |-> 0, a |-> 0]

NoLookup == [name |-> "none", res |-> [kind |-> "none", value |-> "none", exc |-> "none"]]

---------------------------------------------------------------------------
(* class WaveletAnalysis *)

\* __init__: the attributes the constructor sets
WaveletAnalysis_init(x, dt, dj) == [x |-> x, dt |-> dt, dj |-> dj]

\* self.<name>: attribute access on the instance
Attr(o, name) ==
    IF name \in DOMAIN o THEN [found |-> TRUE, val |-> o[name]]
    ELSE [found |-> FALSE, val |-> 0]

\* s0 = 2 * self.dt
s0Of(dt) == 2 * dt

\* int(v): conversion of a float to an integer, truncating toward zero
IntOf(v) == v.sign * v.mag

\* np.arange(0, J) in place of np.arange(0, J + 1)
Ladder_exclusive(s0, J) ==
    [j \in 1..(IF J > 0 THEN J ELSE 0) |-> s0 * Pow(2, j - 1)]

\* sj = s0 * 2 ** np.arange(0, J + 1)
Ladder(s0, J) ==
    [j \in 1..(IF J + 1 > 0 THEN J + 1 ELSE 0) |-> s0 * Pow(2, j - 1)]

\* The body of scales(), N being the result of evaluating self.N.
scalesOf(N, dt, dj) ==
    LET s0 == s0Of(dt)
    IN  IF dj.num = 0 THEN Raise("ZeroDivisionError")          \* 1 / dj
        ELSE IF ~N.found THEN Raise("AttributeError")          \* self.N
        ELSE IF s0 = 0 THEN Raise("ZeroDivisionError")         \* ... / s0
        ELSE IF N.val * dt = 0 THEN Raise("OverflowError")     \* int(-inf)
        ELSE IF Sign(N.val * dt) # Sign(s0) THEN Raise("ValueError") \* int(nan)
        ELSE Return(Ladder(s0, IntOf(RealOf(N.val * dt, s0, dj))))

CallRecord(o, outcome) ==
    [N |-> Len(o.x), dt |-> o.dt, dj |-> o.dj, out |-> outcome]

NeverCalled == [N |-> 0, dt |-> 0, dj |-> Rat(0, 1), out |-> NoOutcome]

---------------------------------------------------------------------------
(* Idle parts: each specification moves one part of the state *)

Slots == {1, 2}

FamilyNames == {"morlet", "ricker", "dog2", "haar", "paul", "__doc__"}

ObjectIdle ==
    /\ self = WaveletAnalysis_init(<<>>, 1, Rat(1, 8))
    /\ calls = 0
    /\ ret = NeverCalled

LadderIdle ==
    /\ inN = 0
    /\ inDt = 0
    /\ inDj = Rat(0, 1)
    /\ out = NoOutcome

LibraryIdle ==
    /\ held = [s \in Slots |-> NoLookup]
    /\ outp = [s \in Slots |-> NoCall]

objVars == <<self, calls, ret>>

ladderVars == <<inN, inDt, inDj, out>>

libVars == <<held, outp>>

---------------------------------------------------------------------------
(* Spec: a WaveletAnalysis object and the calls made on it *)

Init ==
    /\ \E x \in Signals, dt \in DtValues, dj \in DjValues :
          self = WaveletAnalysis_init(x, dt, dj)
    /\ calls = 0
    /\ ret = NeverCalled
    /\ LadderIdle
    /\ LibraryIdle

\* WaveletAnalysis(x, dt, dj): another object is built and takes self's place.
\* The latest call stays on record while the objects built have the signal
\* length, dt and dj that call was made with.
New(x, dt, dj) ==
    /\ self' = WaveletAnalysis_init(x, dt, dj)
    /\ calls' = 0
    /\ ret' = IF ret.N = Len(x) /\ ret.dt = dt /\ ret.dj = dj
              THEN ret ELSE NeverCalled
    /\ UNCHANGED <<ladderVars, libVars>>

\* scales() whose outcome depends on the calls made before
scales_stateful ==
    /\ calls < MaxCalls
    /\ ret' = CallRecord(self,
                 IF calls = 0
                 THEN scalesOf(Attr(self, "N"), self.dt, self.dj)
                 ELSE Return(<<>>))
    /\ calls' = calls + 1
    /\ UNCHANGED <<self, ladderVars, libVars>>

\* scales() that stores s0 in self.dt
scales_writes_dt ==
    /\ calls < MaxCalls
    /\ ret' = CallRecord(self, scalesOf(Attr(self, "N"), self.dt, self.dj))
    /\ calls' = calls + 1
    /\ self' = [self EXCEPT !.dt = s0Of(self.dt)]
    /\ UNCHANGED <<ladderVars, libVars>>

\* self.scales()
scales ==
    /\ calls < MaxCalls
    /\ ret' = CallRecord(self, scalesOf(Attr(self, "N"), self.dt, self.dj))
    /\ calls' = calls + 1
    /\ UNCHANGED <<self, ladderVars, libVars>>

Next ==
    \/ \E x \in Signals, dt \in DtValues, dj \in DjValues : New(x, dt, dj)
    \/ scales

Spec == Init /\ [][Next]_vars

---------------------------------------------------------------------------
(* SpecLadder: the computation of scales() on the values it reads *)

InitLadder ==
    /\ inN \in 0..MaxN
    /\ inDt \in DtValues
    /\ inDj \in DjValues
    /\ out = NoOutcome
    /\ ObjectIdle
    /\ LibraryIdle

compute ==
    /\ out = NoOutcome
    /\ out' = scalesOf([found |-> TRUE, val |-> inN], inDt, inDj)
    /\ UNCHANGED <<inN, inDt, inDj, objVars, libVars>>

NextLadder == compute

SpecLadder == InitLadder /\ [][NextLadder]_vars

---------------------------------------------------------------------------
(* SpecLib: lookups in the Wavelets namespace and calls of the kernels *)

InitLib ==
    /\ LibraryIdle
    /\ ObjectIdle
    /\ LadderIdle

lookup(s, name) ==
    /\ held' = [held EXCEPT ![s] = [name |-> name, res |-> getattr(Wavelets, name)]]
    /\ outp' = [outp EXCEPT ![s] = NoCall]
    /\ UNCHANGED <<objVars, ladderVars>>

call(s, points, a) ==
    /\ held[s].res.kind = "return"
    /\ Callable(held[s].res.value)
    /\ outp' = [outp EXCEPT ![s] = KernelCall(held[s].res.value, points, a)]
    /\ UNCHANGED <<held, objVars, ladderVars>>

NextLib ==
    \/ \E s \in Slots, name \in FamilyNames : lookup(s, name)
    \/ \E s \in Slots, points \in 0..MaxPoints, a \in 1..MaxPoints : call(s, points, a)

SpecLib == InitLib /\ [][NextLib]_vars

---------------------------------------------------------------------------
(* Properties *)

\* the inputs the ladder is specified for: N >= 1, dt > 0, dj > 0, N*dt > 2*dt
ValidInput(N, dt, dj) ==
    /\ N >= 1
    /\ dt > 0
    /\ dj.num > 0
    /\ N * dt > 2 * dt

\* floor(v): rounding toward minus infinity
FloorOf(v) ==
    IF v.sign >= 0 \/ v.whole THEN v.sign * v.mag ELSE -(v.mag + 1)

\* s = s0 * 2^(j * dj) for rational dj and integers s, s0 # 0: the power
\* of two is rational only when j * dj is an integer.
IsScale(s, s0, j, dj) ==
    /\ (j * dj.num) % dj.den = 0
    /\ s = s0 * Pow(2, (j * dj.num) \div dj.den)

StrictlyIncreasing(sq) == \A i \in 1..(Len(sq) - 1) : sq[i] < sq[i + 1]

Registered == {"morlet", "ricker", "dog2"}

\* C1: for valid inputs the ladder returned is s_j = s0 * 2^(j*dj),
\* j = 0..J, s0 = 2*dt: the exponent at index j is j*dj.
C1_LadderIsFractionalPowers ==
    (out.kind = "return" /\ ValidInput(inN, inDt, inDj)) =>
        \A i \in 1..Len(out.value) :
            IsScale(out.value[i], 2 * inDt, i - 1, inDj)

\* C2: on an object built from a signal of length N with valid dt and dj,
\* scales() completes without error and returns a non-empty, strictly
\* increasing sequence that starts at 2*dt.
C2_ScalesCompletes ==
    (ret.out.kind # "none" /\ ValidInput(ret.N, ret.dt, ret.dj)) =>
        /\ ret.out.kind = "return"
        /\ Len(ret.out.value) >= 1
        /\ StrictlyIncreasing(ret.out.value)
        /\ ret.out.value[1] = 2 * ret.dt

C4_DegenerateSignalRaised ==
    (out.kind # "none" /\ inN \in {1, 2} /\ inDt > 0 /\ inDj.num > 0) =>
        out = Raise("DegenerateSignal")

\* C5: with dt <= 0 or dj <= 0 scales() fails with InvalidParameter, with
\* no other error and with no result.
C5_InvalidParameterRaised ==
    (out.kind # "none" /\ (inDt <= 0 \/ inDj.num <= 0)) =>
        out = Raise("InvalidParameter")

\* C6: dog2 resolves to the same kernel function as ricker, so both give
\* the same output on the same (length, width); morlet resolves to
\* another function.
C6_Dog2IsRicker ==
    \A s \in Slots, t \in Slots :
        /\ (held[s].name = "dog2" /\ held[t].name = "ricker") =>
              /\ held[s].res.kind = "return"
              /\ held[s].res = held[t].res
              /\ (outp[s].made /\ outp[t].made
                    /\ outp[s].points = outp[t].points
                    /\ outp[s].a = outp[t].a) => outp[s] = outp[t]
        /\ (held[s].name = "morlet" /\ held[t].name \in {"ricker", "dog2"}) =>
              held[s].res.value # held[t].res.value

\* dog2 and ricker are both held and have been called on the same arguments
C6_Witness ==
    /\ held[1].name = "dog2"
    /\ held[2].name = "ricker"
    /\ outp[1].made
    /\ outp[2].made
    /\ outp[1].points = outp[2].points
    /\ outp[1].a = outp[2].a
    /\ outp[1].points > 0

\* C7 as stated: a lookup succeeds exactly for morlet, ricker and dog2 and
\* fails with UnknownFamily, returning no kernel, for every other name.
C7_UnknownFamilyRaised ==
    \A s \in Slots :
        held[s].name # "none" =>
            IF held[s].name \in Registered
            THEN held[s].res.kind = "return"
                    /\ held[s].res.value \in KernelFunctions
            ELSE held[s].res = NotFound("UnknownFamily")

\* C7 as amended: a lookup returns a kernel function exactly for morlet,
\* ricker and dog2; any other name returns no kernel function, and fails
\* with AttributeError unless it is an attribute every class has (__doc__).
C7_LookupByAttribute ==
    \A s \in Slots :
        held[s].name # "none" =>
            /\ (held[s].res.kind = "return"
                  /\ held[s].res.value \in KernelFunctions)
                  <=> held[s].name \in Registered
            /\ (held[s].name \notin Registered \cup {"__doc__"}) =>
                  held[s].res = NotFound("AttributeError")

\* a registered and an unregistered name have been looked up
C7_Witness ==
    /\ held[1].name = "haar"
    /\ held[1].res.kind = "raise"
    /\ held[2].name = "morlet"
    /\ held[2].res.kind = "return"

C9_WithinDuration ==
    (out.kind = "return" /\ ValidInput(inN, inDt, inDj)) =>
        \A i \in 1..Len(out.value) :
            /\ 2 * inDt <= out.value[i]
            /\ out.value[i] <= inN * inDt

\* C10: a call of scales(), whatever its outcome, leaves x, dt and dj of
\* the object as they were.
C10_ObjectUnchanged ==
    [][calls' = calls + 1 => self' = self]_vars

\* scales() has been called repeatedly on an object with a signal
C10_Witness ==
    /\ calls >= 2
    /\ Len(self.x) >= 1
    /\ ret.out.kind = "raise"

====
